---- MODULE Spec2Model ----
(***************************************************************************)
(* A model of the `classifier` command-line shell:                         *)
(*   classifier/__init__.py : main, setup_logging, parse_args,             *)
(*                            parse_subcommands, version                   *)
(*   classifier/utils.py    : opener, groupbyl                             *)
(*   setup.py               : the direct caller of version()               *)
(*                                                                         *)
(* The code is Python 3 (setup.py refuses Python 2, utils uses bz2.open).  *)
(* Python strings are modelled as sequences of one-character strings, so   *)
(* that suffix tests, regular-expression searches and formatting are       *)
(* computed.  Command-line tokens are atomic TLA+ strings.                 *)
(*                                                                         *)
(* The plugin package classifier.subcommands is an input of a run: two     *)
(* modules, a and b, each of which either raises on import or has a        *)
(* docstring, a build_parser and an action.  The argument lists do not     *)
(* use -l FILE, so the log stream stays sys.stdout.                        *)
(***************************************************************************)
EXTENDS Integers, Sequences, FiniteSets, TLC

\* ------------------------------------------------------------------ bounds
MaxArgs == 3        \* longest argument list given to main
MaxFlags == 5       \* longest argument list of the verbosity runs
MaxDepth == 3       \* cap on nested main calls explored
MaxLen == 3         \* longest list given to groupbyl
MaxPath == 4        \* longest path given to open_file

\* --------------------------------------------------------------- utilities
SeqsUpTo(S, n) == UNION {[1..k -> S] : k \in 0..n}

RECURSIVE Mem(_, _)
Mem(x, s) == IF s = <<>> THEN FALSE ELSE Head(s) = x \/ Mem(x, Tail(s))

NoneVal == <<"None">>                 \* Python None (no str has a 4-letter char)
S000 == <<"0", ".", "0", ".", "0">>   \* the literal '0.0.0'

\* ---------------------------------------------------------------- logging
DEBUG == 10
INFO == 20
WARNING == 30
ERROR == 40

VARIABLES
  (* inputs of one process run *)
  argv0,        \* the argument list of the top-level call of main
  broken,       \* the plugin modules that raise on import
  git,          \* outcome of each of the two `git describe` commands
  pkg,          \* outcome of pkg_resources.require("classifier")
  (* main *)
  pc,           \* position in main
  argv,         \* main's local argv (rebound by parse_known_args)
  depth,        \* number of re-entries of main through the help branch
  verbosity,    \* namespace.verbosity
  configured,   \* the root logger has a handler (basicConfig has acted)
  loglevel,     \* the root logger's level
  actions,      \* keys of the handler dict built by parse_subcommands
  imported,     \* modules import_module was called on in this call of main
  subparser_name, \* namespace.subparser_name
  help_target,  \* namespace.action[0]
  out,          \* everything written: log lines, help, usage, version
  outcome,      \* how the process run ended
  hookCalls,    \* calls of subcommands.action
  lookups,      \* keys looked up in the handler dict
  handlerCalls, \* handlers invoked
  (* version *)
  vpc,          \* position in version()
  cmd,          \* index of the git command being tried
  version_,     \* the local variable `version`
  vresult,      \* value returned by version()
  (* utils.groupbyl *)
  li,           \* the argument li
  key,          \* the argument key
  as_dict,      \* the argument as_dict
  gpc,          \* position in groupbyl
  groups,       \* the local variable `groups`
  gresult,      \* the value returned
  (* utils.opener *)
  mode,         \* the mode opener was called with
  f,            \* the argument f of open_file
  opc,          \* position: factory call, closure call, done
  ores,         \* what open_file returned
  handles       \* the file handles opened

mainVars == <<pc, argv, depth, verbosity, actions, imported, subparser_name,
              help_target, outcome, hookCalls, lookups, handlerCalls>>
logVars == <<configured, loglevel, out>>
verVars == <<vpc, cmd, version_, vresult>>
envVars == <<argv0, broken, git, pkg>>
groupVars == <<li, key, as_dict, gpc, groups, gresult>>
openVars == <<mode, f, opc, ores, handles>>
utilVars == <<groupVars, openVars>>
vars == <<envVars, mainVars, logVars, verVars, utilVars>>

Ev(kind, arg, choices) == [kind |-> kind, arg |-> arg, choices |-> choices]

\* Logger.log: a record is emitted when its level reaches the root level.
Emit(o, lvl, level, msg) ==
  IF level >= lvl THEN Append(o, Ev("log", msg, {})) ELSE o

\* ------------------------------------------------- version(): lines 179-223
Digits == {"0", "1", "2", "3", "4", "5", "6", "7", "8", "9"}
TagChars == Digits \cup {"."}          \* the character class [\d.]

RECURSIVE FirstV(_, _)
\* re.search scans for the first position where the pattern can match: the
\* first 'v' (everything after the 'v' in the pattern may match empty).
FirstV(s, i) ==
  IF i > Len(s) THEN 0 ELSE IF s[i] = "v" THEN i ELSE FirstV(s, i + 1)

RECURSIVE RunEnd(_, _)
\* index just after the longest run of [\d.] starting at i (greedy star)
RunEnd(s, i) ==
  IF i <= Len(s) /\ s[i] \in TagChars THEN RunEnd(s, i + 1) ELSE i

NoMatch == [matched |-> FALSE, tag |-> <<>>, commit |-> <<>>]

\* git_re = 'v(?P<tag>[\d.]*)-?(?P<commit>[\d.]*)-?.*' searched in text s
git_search(s) ==
  LET v == FirstV(s, 1) IN
  IF v = 0 THEN NoMatch
  ELSE LET t0 == v + 1
           t1 == RunEnd(s, t0)
           c0 == IF t1 <= Len(s) /\ s[t1] = "-" THEN t1 + 1 ELSE t1
           c1 == RunEnd(s, c0)
       IN [matched |-> TRUE,
           tag |-> SubSeq(s, t0, t1 - 1),
           commit |-> SubSeq(s, c0, c1 - 1)]

\* lines 206-209: '<tag>' or '{tag}.dev{commit}'
format_version(m) ==
  IF m.commit = <<>> THEN m.tag
  ELSE m.tag \o <<".", "d", "e", "v">> \o m.commit

\* subprocess.check_output(cmd, stderr=devnull): raises OSError when the
\* tool cannot be spawned, CalledProcessError on a non-zero exit, and
\* otherwise returns the captured output as a bytes object.
check_output(r) ==
  IF r.kind = "output" THEN [exc |-> "", type |-> "bytes", data |-> r.data]
  ELSE [exc |-> r.kind, type |-> "", data |-> <<>>]

\* re.search(git_re, git_ver) with a str pattern: a bytes subject raises
\* TypeError ("cannot use a string pattern on a bytes-like object").
re_search(subject) ==
  IF subject.type = "bytes" THEN [exc |-> "TypeError", m |-> NoMatch]
  ELSE [exc |-> "", m |-> git_search(subject.data)]

\* One iteration of `for cmd in git_cmds` (lines 200-212): the local
\* `version` after the try block, NoneVal when the except branch ran.
git_attempt(r) ==
  LET git_ver == check_output(r) IN
  IF git_ver.exc # "" THEN NoneVal
  ELSE LET git_search_ == re_search(git_ver) IN
       IF git_search_.exc # "" THEN NoneVal
       ELSE IF ~git_search_.m.matched THEN NoneVal   \* None.group: AttributeError
       ELSE format_version(git_search_.m)

\* setup.py line 16: version=classifier.version()
SetupCall ==
  /\ pc = "setup" /\ vpc = "idle"
  /\ pc' = "setup_version"
  /\ vpc' = "loop" /\ cmd' = 1 /\ version_' = NoneVal
  /\ UNCHANGED <<utilVars, envVars, argv, depth, verbosity, actions, imported,
                 subparser_name, help_target, outcome, hookCalls, lookups,
                 handlerCalls, logVars, vresult>>

\* main line 51 / parse_version lines 96-100: version() is evaluated as an
\* argument of add_argument, on every call of main.
ParseVersion ==
  /\ pc = "parse_version" /\ vpc = "idle"
  /\ pc' = "version"
  /\ vpc' = "loop" /\ cmd' = 1 /\ version_' = NoneVal
  /\ UNCHANGED <<utilVars, envVars, argv, depth, verbosity, actions, imported,
                 subparser_name, help_target, outcome, hookCalls, lookups,
                 handlerCalls, logVars, vresult>>

\* lines 200-212, one pass of the loop body.  logging.debug is the
\* module-level function: it calls basicConfig() when the root logger has
\* no handler, which leaves the root level as it is.
VersionGit ==
  /\ vpc = "loop" /\ cmd <= 2
  /\ LET o1 == Emit(out, loglevel, DEBUG, "git")
         v == git_attempt(git[cmd])
     IN /\ configured' = TRUE
        /\ IF v # NoneVal
           THEN /\ version_' = v            \* break
                /\ vpc' = "fallback"
                /\ cmd' = cmd
                /\ out' = o1
           ELSE /\ version_' = version_     \* except: log.debug(e)
                /\ out' = Emit(o1, loglevel, DEBUG, "git failed")
                /\ cmd' = cmd + 1
                /\ vpc' = IF cmd = 2 THEN "fallback" ELSE "loop"
  /\ UNCHANGED <<utilVars, envVars, mainVars, loglevel, vresult>>

\* lines 214-221: only DistributionNotFound is caught.
VersionFallback ==
  /\ vpc = "fallback"
  /\ IF version_ # NoneVal
     THEN /\ vpc' = "return"
          /\ UNCHANGED <<version_, out, pc, outcome>>
     ELSE CASE pkg.kind = "found" ->
                 /\ version_' = pkg.version
                 /\ vpc' = "return"
                 /\ UNCHANGED <<out, pc, outcome>>
            [] pkg.kind = "DistributionNotFound" ->
                 /\ out' = Emit(out, loglevel, WARNING, "DistributionNotFound")
                 /\ vpc' = "return"
                 /\ UNCHANGED <<version_, pc, outcome>>
            [] OTHER ->                    \* propagates out of version()
                 /\ vpc' = "raised"
                 /\ pc' = IF pc = "version" THEN "done" ELSE "setup_done"
                 /\ outcome' = pkg.kind
                 /\ UNCHANGED <<version_, out>>
  /\ UNCHANGED <<utilVars, envVars, argv, depth, verbosity, actions, imported,
                 subparser_name, help_target, hookCalls, lookups,
                 handlerCalls, configured, loglevel, cmd, vresult>>

\* line 223: return version or '0.0.0'
VersionReturn ==
  /\ vpc = "return"
  /\ vresult' = IF version_ = NoneVal \/ version_ = <<>> THEN S000 ELSE version_
  /\ vpc' = "idle"
  /\ pc' = IF pc = "version" THEN "parse_subcommands" ELSE "setup_done"
  /\ UNCHANGED <<utilVars, envVars, argv, depth, verbosity, actions, imported,
                 subparser_name, help_target, outcome, hookCalls, lookups,
                 handlerCalls, logVars, cmd, version_>>

\* the environments version() can meet
GitText ==
  { <<"v", "0", ".", "1", "-", "3", "8", "-", "g", "6">>,   \* v0.1-38-g6
    <<"v", "1", ".", "2">>,                                  \* v1.2
    <<"v", "g">>,                                            \* empty tag
    <<"g", "6">> }                                           \* no 'v'
GitOutcomes ==
  {[kind |-> "OSError", data |-> <<>>],
   [kind |-> "CalledProcessError", data |-> <<>>]}
  \cup {[kind |-> "output", data |-> t] : t \in GitText}
PkgOutcomes ==
  {[kind |-> "found", version |-> <<"1", ".", "0">>],
   [kind |-> "DistributionNotFound", version |-> <<>>],
   [kind |-> "VersionConflict", version |-> <<>>]}

\* the parts of the state a run does not use stay as they are here
GroupIdle ==
  /\ li = <<>> /\ key = "None" /\ as_dict = FALSE /\ gpc = "idle"
  /\ groups = <<>>
  /\ gresult = [kind |-> "none", pairs |-> <<>>, map |-> [q \in {} |-> <<>>]]
OpenIdle ==
  /\ mode = <<>> /\ f = <<>> /\ opc = "idle" /\ handles = <<>>
  /\ ores = [kind |-> "none", stream |-> <<>>, codec |-> "", path |-> <<>>,
             mode |-> <<>>]

\* a fresh process: nothing parsed, the root logger without a handler and
\* at its default level, version() not yet called
InitIdle ==
  /\ depth = 0 /\ verbosity = 0
  /\ configured = FALSE /\ loglevel = WARNING
  /\ actions = {} /\ imported = <<>>
  /\ subparser_name = "None" /\ help_target = "None"
  /\ out = <<>> /\ outcome = "none"
  /\ hookCalls = 0 /\ lookups = <<>> /\ handlerCalls = 0
  /\ vpc = "idle" /\ cmd = 1 /\ version_ = NoneVal /\ vresult = NoneVal

InitVersion ==
  /\ InitIdle /\ GroupIdle /\ OpenIdle
  /\ argv0 = <<>> /\ argv = <<>> /\ broken = {}
  /\ pc = "setup"
  /\ git \in [1..2 -> GitOutcomes]
  /\ pkg \in PkgOutcomes

NextVersion == SetupCall \/ VersionGit \/ VersionFallback \/ VersionReturn

SpecVersion == InitVersion /\ [][NextVersion]_vars

\* --------------------------------------------------- main(): lines 38-73
\* pkgutil.iter_modules(subcommands.__path__): the plugin modules, in the
\* order the finder yields them.
modules == <<"a", "b">>
ModuleSet == {modules[i] : i \in 1..Len(modules)}
Tokens == {"-v", "-q", "-h", "-V", "help", "zz"} \cup ModuleSet
IsOption(t) == t \in {"-v", "-q", "-h", "-V"}      \* tokens that start with '-'

RECURSIVE parse_known_args(_, _, _)
\* line 46 with the parser of parse_args (lines 110-121): -v counts up from
\* the current value, -q stores the constant 0, every other token is
\* returned, in order, as the remaining argv.
parse_known_args(args, v, extras) ==
  IF args = <<>> THEN [verbosity |-> v, argv |-> extras]
  ELSE LET t == Head(args) IN
       IF t = "-v" THEN parse_known_args(Tail(args), v + 1, extras)
       ELSE IF t = "-q" THEN parse_known_args(Tail(args), 0, extras)
       ELSE parse_known_args(Tail(args), v, Append(extras, t))

\* lines 40-46; the default of `verbosity` is 0 (line 113)
MainPreScan ==
  /\ pc = "main"
  /\ LET r == parse_known_args(argv, 0, <<>>)
     IN /\ verbosity' = r.verbosity
        /\ argv' = r.argv
  /\ pc' = "setup_logging"
  /\ UNCHANGED <<utilVars, envVars, depth, actions, imported, subparser_name,
                 help_target, outcome, hookCalls, lookups, handlerCalls,
                 logVars, verVars>>

\* level_of with the dict's default taken to be the quietest level
level_of_default_error(v) ==
  CASE v = 0 -> ERROR
    [] v = 1 -> WARNING
    [] v = 2 -> INFO
    [] v = 3 -> DEBUG
    [] OTHER -> ERROR

\* lines 81-86: dict.get(namespace.verbosity, logging.DEBUG)
level_of(v) ==
  CASE v = 0 -> ERROR
    [] v = 1 -> WARNING
    [] v = 2 -> INFO
    [] v = 3 -> DEBUG
    [] OTHER -> DEBUG

\* lines 76-93: logging.basicConfig does nothing when the root logger
\* already has a handler.
SetupLogging ==
  /\ pc = "setup_logging"
  /\ IF configured
     THEN UNCHANGED <<configured, loglevel>>
     ELSE /\ configured' = TRUE
          /\ loglevel' = level_of(verbosity)
  /\ pc' = "parse_version"
  /\ UNCHANGED <<utilVars, envVars, argv, depth, verbosity, actions, imported,
                 subparser_name, help_target, outcome, hookCalls, lookups,
                 handlerCalls, out, verVars>>

\* line 141
commands(av) == SelectSeq(modules, LAMBDA m : Mem(m, av))

\* considered without the filter: every discovered module, always
considered_all(av) == modules

\* line 148: for name in commands or modules
considered(av) == IF commands(av) # <<>> THEN commands(av) ELSE modules

RECURSIVE register(_, _, _, _, _)
\* lines 148-174: the loop over the considered modules.  A module that
\* raises on import costs one log.error line and is skipped.
register(names, bad, acts, o, lvl) ==
  IF names = <<>> THEN [actions |-> acts, out |-> o]
  ELSE LET name == Head(names) IN
       IF name \in bad
       THEN register(Tail(names), bad, acts, Emit(o, lvl, ERROR, name), lvl)
       ELSE register(Tail(names), bad, acts \cup {name}, o, lvl)

\* lines 126-176
ParseSubcommands ==
  /\ pc = "parse_subcommands"
  /\ LET names == considered(argv)
         r == register(names, broken, {}, out, loglevel)
     IN /\ actions' = r.actions
        /\ out' = r.out
        /\ imported' = names
  /\ pc' = "parse_args"
  /\ UNCHANGED <<utilVars, envVars, argv, depth, verbosity, subparser_name,
                 help_target, outcome, hookCalls, lookups, handlerCalls,
                 configured, loglevel, verVars>>

\* ---- parser.parse_args(args=argv, namespace=namespace), line 61
Parsed(exit, parser, name, target) ==
  [exit |-> exit, parser |-> parser, name |-> name, target |-> target]

RECURSIVE parse_help(_, _, _)
\* the `help` sub-parser (lines 134-136): -h, and one positional `action`
\* with nargs=1.  Anything else is left over and rejected by parse_args.
parse_help(rest, target, extras) ==
  IF rest = <<>>
  THEN IF target = "None" \/ extras
       THEN Parsed("error", "help", "None", "None")
       ELSE Parsed("none", "help", "help", target)
  ELSE LET t == Head(rest) IN
       IF t = "-h" THEN Parsed("help", "help", "None", "None")
       ELSE IF IsOption(t) THEN parse_help(Tail(rest), target, TRUE)
       ELSE IF target = "None" THEN parse_help(Tail(rest), t, extras)
       ELSE parse_help(Tail(rest), target, TRUE)

\* The sub-parser of plugin x (lines 163-172): -h, plus what the plugin's
\* build_parser adds, here a list of positional arguments.
parse_plugin(x, rest) ==
  IF Mem("-h", rest) THEN Parsed("help", x, "None", "None")
  ELSE IF \E i \in 1..Len(rest) : IsOption(rest[i])
       THEN Parsed("error", x, "None", "None")
       ELSE Parsed("none", x, x, "None")

RECURSIVE parse_args(_, _)
\* The top-level parser: -v, -q, -V, -h and the sub-parser choice, which
\* is optional (add_subparsers is called without required=True, line 131)
\* and takes every token from the first positional on.  The argv it is
\* given holds no -v or -q: parse_known_args has consumed them.
parse_args(args, acts) ==
  IF args = <<>> THEN Parsed("none", "top", "None", "None")
  ELSE LET t == Head(args) IN
       IF t = "-h" THEN Parsed("help", "top", "None", "None")
       ELSE IF t = "-V" THEN Parsed("version", "top", "None", "None")
       ELSE IF t \in {"-v", "-q"} THEN parse_args(Tail(args), acts)
       ELSE IF t = "help" THEN parse_help(Tail(args), "None", FALSE)
       ELSE IF t \in acts THEN parse_plugin(t, Tail(args))
       ELSE Parsed("error", "top", "None", "None")   \* invalid choice

\* line 61.  The help and version actions print and raise SystemExit(0);
\* a usage error prints the usage and raises SystemExit(2).
ParseArgs ==
  /\ pc = "parse_args"
  /\ LET r == parse_args(argv, actions) IN
     CASE r.exit = "help" ->
            /\ out' = Append(out, Ev("help", r.parser,
                         IF r.parser = "top" THEN actions \cup {"help"} ELSE {}))
            /\ outcome' = "help_exit" /\ pc' = "done"
            /\ UNCHANGED <<subparser_name, help_target>>
       [] r.exit = "version" ->
            /\ out' = Append(out, Ev("version", "", {}))
            /\ outcome' = "version_exit" /\ pc' = "done"
            /\ UNCHANGED <<subparser_name, help_target>>
       [] r.exit = "error" ->
            /\ out' = Append(out, Ev("usage", r.parser, {}))
            /\ outcome' = "usage_error" /\ pc' = "done"
            /\ UNCHANGED <<subparser_name, help_target>>
       [] OTHER ->
            /\ subparser_name' = r.name
            /\ help_target' = r.target
            /\ pc' = "dispatch"
            /\ UNCHANGED <<out, outcome>>
  /\ UNCHANGED <<utilVars, envVars, argv, depth, verbosity, actions, imported,
                 hookCalls, lookups, handlerCalls, configured, loglevel,
                 verVars>>

\* help_argv without the appended '-h'
help_argv_bare(target) == <<target>>

\* the argument list of the nested call, line 69
help_argv(target) == <<target, "-h">>

\* lines 67-69: return main([str(namespace.action[0]), '-h'])
DispatchHelp ==
  /\ pc = "dispatch" /\ subparser_name = "help"
  /\ depth < MaxDepth
  /\ argv' = help_argv(help_target)
  /\ depth' = depth + 1
  /\ pc' = "main"
  /\ UNCHANGED <<utilVars, envVars, verbosity, actions, imported, subparser_name,
                 help_target, outcome, hookCalls, lookups, handlerCalls,
                 logVars, verVars>>

\* lines 70-73: the hook, then actions[action](namespace); a key that is
\* not in the dict raises KeyError.
DispatchAction ==
  /\ pc = "dispatch" /\ subparser_name # "help"
  /\ hookCalls' = hookCalls + 1
  /\ lookups' = Append(lookups, subparser_name)
  /\ IF subparser_name \in actions
     THEN /\ handlerCalls' = handlerCalls + 1
          /\ outcome' = "handler_result"
     ELSE /\ handlerCalls' = handlerCalls
          /\ outcome' = "KeyError"
  /\ pc' = "done"
  /\ UNCHANGED <<utilVars, envVars, argv, depth, verbosity, actions, imported,
                 subparser_name, help_target, logVars, verVars>>

\* the environments of main: the version-control tool answers or is
\* missing, the package metadata is found, missing or in conflict
MainGit == <<[kind |-> "OSError", data |-> <<>>],
            [kind |-> "output", data |-> <<"v", "1", ".", "2">>]>>

InitMain ==
  /\ InitIdle /\ GroupIdle /\ OpenIdle
  /\ argv0 \in SeqsUpTo(Tokens, MaxArgs)
  /\ argv = argv0
  /\ broken \in SUBSET ModuleSet
  /\ git = MainGit
  /\ pkg \in PkgOutcomes
  /\ pc = "main"

Next ==
  \/ MainPreScan \/ SetupLogging \/ ParseVersion
  \/ VersionGit \/ VersionFallback \/ VersionReturn
  \/ ParseSubcommands \/ ParseArgs \/ DispatchHelp \/ DispatchAction

Spec == InitMain /\ [][Next]_vars

\* Runs of main that exercise the verbosity flags: longer argument lists
\* over fewer tokens, every plugin importable, the package installed.
LogTokens == {"-v", "-q", "help", "a"}

InitLogging ==
  /\ InitIdle /\ GroupIdle /\ OpenIdle
  /\ argv0 \in SeqsUpTo(LogTokens, MaxFlags)
  /\ argv = argv0
  /\ broken = {}
  /\ git = MainGit
  /\ pkg = [kind |-> "found", version |-> <<"1", ".", "0">>]
  /\ pc = "main"

SpecLogging == InitLogging /\ [][Next]_vars

\* ======================================================== claims on main
Positions(av) == 1..Len(av)

\* what a direct `x -h` writes and how it ends, at the default verbosity
DirectHelp(x) ==
  IF pkg.kind = "VersionConflict"
  THEN [out |-> <<>>, outcome |-> "VersionConflict"]
  ELSE [out |-> <<Ev("help", x, {})>>, outcome |-> "help_exit"]

\* C1: for every plugin x in the handler registry, the run of main on
\* ['help', x] and the run on [x, '-h'] write the same output and end the
\* same way, without calling the hook or a handler; the help run re-enters
\* main once, with exactly [x, '-h'], and its result is the nested call's.
HelpEquivalence ==
  \A x \in ModuleSet \ broken :
    /\ (pc = "done" /\ argv0 \in {<<"help", x>>, <<x, "-h">>}) =>
          /\ out = DirectHelp(x).out
          /\ outcome = DirectHelp(x).outcome
          /\ hookCalls = 0 /\ handlerCalls = 0 /\ lookups = <<>>
    /\ (argv0 = <<"help", x>> /\ depth > 0) =>
          /\ depth = 1
          /\ (pc = "main" => argv = <<x, "-h">>)
    /\ (argv0 = <<"help", x>> /\ outcome = "help_exit") => depth = 1
    /\ (argv0 = <<x, "-h">>) => depth = 0

HelpEquivalenceWitness ==
  /\ pc = "done" /\ argv0 = <<"help", "a">> /\ depth = 1
  /\ outcome = "help_exit" /\ out = <<Ev("help", "a", {})>>

ErrorLines(b) == Cardinality({i \in Positions(out) : out[i] = Ev("log", b, {})})

\* C2: at the end of a process run no broken plugin is in the handler
\* registry, every importable plugin that was considered is, and a broken
\* plugin whose import was attempted has exactly one error line.
PluginIsolation ==
  pc = "done" =>
    \A m \in ModuleSet :
      /\ (m \in broken => m \notin actions)
      /\ (m \in broken /\ Mem(m, imported) => ErrorLines(m) = 1)
      /\ (m \notin broken /\ Mem(m, imported) => m \in actions)

\* the number of -v after the last -q
LastQuiet(av) ==
  IF \E i \in Positions(av) : av[i] = "-q"
  THEN CHOOSE i \in Positions(av) :
         av[i] = "-q" /\ \A j \in Positions(av) : av[j] = "-q" => j <= i
  ELSE 0
FinalCount(av) ==
  Cardinality({i \in Positions(av) : i > LastQuiet(av) /\ av[i] = "-v"})
EndsQuiet(av) ==
  LastQuiet(av) > 0 /\ \A i \in Positions(av) : i > LastQuiet(av) => av[i] # "-v"

\* C3: once logging is configured the level is ERROR, WARNING, INFO or
\* DEBUG for a final verbosity of 0, 1, 2 or at least 3, the verbosity
\* being the number of -v that follow the last -q; a -q with no -v after
\* it gives ERROR.
VerbosityMapping ==
  configured =>
    /\ FinalCount(argv0) = 0 => loglevel = ERROR
    /\ FinalCount(argv0) = 1 => loglevel = WARNING
    /\ FinalCount(argv0) = 2 => loglevel = INFO
    /\ FinalCount(argv0) >= 3 => loglevel = DEBUG
    /\ EndsQuiet(argv0) => loglevel = ERROR
    /\ (depth = 0 /\ pc # "main") => verbosity = FinalCount(argv0)

VerbosityMappingWitness ==
  /\ configured /\ pc = "done"
  /\ FinalCount(argv0) >= 4 /\ loglevel = DEBUG

\* the argument list names no subcommand and asks for no help or version
NoSubcommand(av) ==
  \A i \in Positions(av) : av[i] \notin ModuleSet \cup {"help", "-h", "-V"}

\* C7: a run whose argument list names no subcommand and asks for no help
\* (nor version) ends in the usage error, the hook is not applied and no
\* handler is looked up.
NoSubcommandIsUsageError ==
  (pc = "done" /\ NoSubcommand(argv0) /\ outcome # "VersionConflict") =>
     /\ outcome = "usage_error"
     /\ hookCalls = 0
     /\ lookups = <<>>

Named(av) == {m \in ModuleSet : \E i \in Positions(av) : av[i] = m}
Attention(av) == IF Named(av) # {} THEN Named(av) ELSE ModuleSet
Invoked(av) ==
  IF \E i \in Positions(av) : ~IsOption(av[i])
  THEN av[CHOOSE i \in Positions(av) :
            ~IsOption(av[i]) /\ \A j \in 1..(i - 1) : IsOption(av[j])]
  ELSE "None"

DispatchOutcomes ==
  /\ depth <= 1
  /\ (pc = "done" /\ outcome # "VersionConflict") =>
        outcome \in {"handler_result", "help_exit", "version_exit", "usage_error"}

\* ===================================================== claims on version
\* C4: version() never lets an exception out and returns a string.
VersionNeverRaises ==
  /\ vpc # "raised"
  /\ pc = "setup_done" => (outcome = "none" /\ vresult # NoneVal)

\* a query that succeeded and whose output holds a tag
Usable(r) ==
  /\ r.kind = "output"
  /\ git_search(r.data).matched
  /\ git_search(r.data).tag # <<>>
FromGit(r) == format_version(git_search(r.data))

\* C8: the value returned is the tag (with .dev<commits>) of the first
\* query that succeeds and parses; with no usable tag it is the installed
\* package's version; it is '0.0.0' only when that lookup failed too.
VersionPrecedence ==
  (pc = "setup_done" /\ vpc = "idle") =>
    /\ Usable(git[1]) => vresult = FromGit(git[1])
    /\ (~Usable(git[1]) /\ Usable(git[2])) => vresult = FromGit(git[2])
    /\ (~Usable(git[1]) /\ ~Usable(git[2]) /\ pkg.kind = "found") =>
          vresult = pkg.version
    /\ vresult = S000 =>
          (~Usable(git[1]) /\ ~Usable(git[2]) /\ pkg.kind # "found")

\* ============================================ utils.groupbyl: lines 101-108
\* The records grouped are pairs of small integers; key is None (the item
\* itself), or a function taking the first or the second field.
Fields == 0..1
Items == Fields \X Fields
Keys == {"None", "first", "second"}

\* key(x), as a tuple so that every key compares the same way
KeyOf(k, x) ==
  CASE k = "first" -> <<x[1]>>
    [] k = "second" -> <<x[2]>>
    [] OTHER -> x

RECURSIVE Less(_, _)
\* Python's < on tuples of integers
Less(a, b) ==
  IF a = <<>> THEN b # <<>>
  ELSE IF b = <<>> THEN FALSE
  ELSE IF Head(a) # Head(b) THEN Head(a) < Head(b)
  ELSE Less(Tail(a), Tail(b))

RECURSIVE insert(_, _, _)
\* x goes behind every element whose key is not greater than its own
insert(x, s, k) ==
  IF s = <<>> THEN <<x>>
  ELSE IF Less(KeyOf(k, x), KeyOf(k, Head(s))) THEN <<x>> \o s
  ELSE <<Head(s)>> \o insert(x, Tail(s), k)

\* sorted without sorting: groupby applied to the input as it comes
sorted_unsorted(s, k) == s

RECURSIVE sorted(_, _)
\* line 102: sorted(li, key=key), a stable sort
sorted(s, k) ==
  IF s = <<>> THEN <<>>
  ELSE insert(s[Len(s)], sorted(SubSeq(s, 1, Len(s) - 1), k), k)

RECURSIVE groupby(_, _, _)
\* lines 103-104: itertools.groupby starts a new group whenever the key
\* changes; each group is listed as it is produced.
groupby(s, k, acc) ==
  IF s = <<>> THEN acc
  ELSE LET x == Head(s)
           g == KeyOf(k, x)
           n == Len(acc)
       IN IF n > 0 /\ acc[n][1] = g
          THEN groupby(Tail(s), k, [acc EXCEPT ![n] = <<g, Append(@[2], x)>>])
          ELSE groupby(Tail(s), k, Append(acc, <<g, <<x>>>>))

RECURSIVE dict(_, _)
\* line 106: dict(pairs); a key met again replaces the earlier entry
dict(pairs, d) ==
  IF pairs = <<>> THEN d
  ELSE LET g == Head(pairs)[1]
           l == Head(pairs)[2]
       IN dict(Tail(pairs),
               [q \in DOMAIN d \cup {g} |-> IF q = g THEN l ELSE d[q]])

EmptyDict == [q \in {} |-> <<>>]

\* line 102
GroupSort ==
  /\ gpc = "sort"
  /\ groups' = sorted(li, key)
  /\ gpc' = "groupby"
  /\ UNCHANGED <<envVars, mainVars, logVars, verVars, openVars,
                 li, key, as_dict, gresult>>

\* lines 103-104
GroupBy ==
  /\ gpc = "groupby"
  /\ groups' = groupby(groups, key, <<>>)
  /\ gpc' = "return"
  /\ UNCHANGED <<envVars, mainVars, logVars, verVars, openVars,
                 li, key, as_dict, gresult>>

\* lines 105-108
GroupReturn ==
  /\ gpc = "return"
  /\ gresult' = IF as_dict
                THEN [kind |-> "dict", pairs |-> <<>>,
                      map |-> dict(groups, EmptyDict)]
                ELSE [kind |-> "generator", pairs |-> groups,
                      map |-> EmptyDict]
  /\ gpc' = "done"
  /\ UNCHANGED <<envVars, mainVars, logVars, verVars, openVars,
                 li, key, as_dict, groups>>

MainIdle ==
  /\ InitIdle
  /\ argv0 = <<>> /\ argv = <<>> /\ broken = {}
  /\ git = MainGit /\ pkg = [kind |-> "found", version |-> <<"1", ".", "0">>]
  /\ pc = "idle"

InitGroup ==
  /\ MainIdle /\ OpenIdle
  /\ li \in SeqsUpTo(Items, MaxLen)
  /\ key \in Keys
  /\ as_dict \in BOOLEAN
  /\ gpc = "sort" /\ groups = <<>>
  /\ gresult = [kind |-> "none", pairs |-> <<>>, map |-> EmptyDict]

NextGroup == GroupSort \/ GroupBy \/ GroupReturn

SpecGroup == InitGroup /\ [][NextGroup]_vars

\* the elements of li whose key is g, in the order of li
Members(g) == SelectSeq(li, LAMBDA x : KeyOf(key, x) = g)
KeySet == {KeyOf(key, li[i]) : i \in 1..Len(li)}

RECURSIVE TotalLen(_)
TotalLen(pairs) ==
  IF pairs = <<>> THEN 0 ELSE Len(Head(pairs)[2]) + TotalLen(Tail(pairs))

\* C5: the groups returned have pairwise different keys, one group per key
\* of the input; each group holds exactly the input elements of its key,
\* in input order, so every element is in exactly one group; the mapping
\* has one entry per key and loses no element.
GroupingCorrect ==
  gpc = "done" =>
    IF gresult.kind = "generator"
    THEN LET ps == gresult.pairs IN
         /\ \A i, j \in 1..Len(ps) : i # j => ps[i][1] # ps[j][1]
         /\ {ps[i][1] : i \in 1..Len(ps)} = KeySet
         /\ \A i \in 1..Len(ps) : ps[i][2] = Members(ps[i][1])
         /\ TotalLen(ps) = Len(li)
    ELSE /\ DOMAIN gresult.map = KeySet
         /\ \A g \in KeySet : gresult.map[g] = Members(g)

GroupingCorrectWitness ==
  /\ gpc = "done" /\ key = "first" /\ gresult.kind = "generator"
  /\ li = << <<1, 0>>, <<0, 1>>, <<1, 1>> >>
  /\ gresult.pairs = << << <<0>>, << <<0, 1>> >> >>,
                        << <<1>>, << <<1, 0>>, <<1, 1>> >> >> >>

\* ============================================== utils.opener: lines 76-98
Stdout == <<"sys.stdout">>      \* the stream objects (no path has such a char)
Stdin == <<"sys.stdin">>
PathChars == {".", "b", "z", "2", "g", "-", "x"}
Paths == SeqsUpTo(PathChars, MaxPath)
Modes == { <<"r">>, <<"r", "t">>, <<"r", "b">>, <<"r", "+">>,
           <<"w">>, <<"w", "t">>, <<"a">>, <<"a", "b">>, <<"x">> }

\* str.endswith
endswith(s, suffix) ==
  /\ Len(s) >= Len(suffix)
  /\ SubSeq(s, Len(s) - Len(suffix) + 1, Len(s)) = suffix

Stream(x) == [kind |-> "stream", stream |-> x, codec |-> "", path |-> <<>>,
              mode |-> <<>>]
Handle(codec, path, m) == [kind |-> "handle", stream |-> <<>>,
                           codec |-> codec, path |-> path, mode |-> m]

\* open_file with the read test written as mode == 'r'
open_file_exact_r(t, m) ==
  IF t = Stdout \/ t = Stdin THEN Stream(t)
  ELSE IF t = <<"-">> THEN (IF m = <<"r">> THEN Stream(Stdin) ELSE Stream(Stdout))
  ELSE IF endswith(t, <<".", "b", "z", "2">>) THEN Handle("bz2", t, m)
  ELSE IF endswith(t, <<".", "g", "z">>) THEN Handle("gzip", t, m)
  ELSE Handle("none", t, m)

\* lines 86-96: the closure open_file, with the mode it was created for
open_file(t, m) ==
  IF t = Stdout \/ t = Stdin THEN Stream(t)
  ELSE IF t = <<"-">> THEN (IF Mem("r", m) THEN Stream(Stdin) ELSE Stream(Stdout))
  ELSE IF endswith(t, <<".", "b", "z", "2">>) THEN Handle("bz2", t, m)
  ELSE IF endswith(t, <<".", "g", "z">>) THEN Handle("gzip", t, m)
  ELSE Handle("none", t, m)

\* lines 76-98: opener(mode) returns the closure
Opener ==
  /\ opc = "factory"
  /\ \E m \in Modes : mode' = m
  /\ opc' = "closure"
  /\ UNCHANGED <<envVars, mainVars, logVars, verVars, groupVars,
                 f, ores, handles>>

\* lines 86-96: the closure is applied to a target
OpenFile ==
  /\ opc = "closure"
  /\ LET r == open_file(f, mode)
     IN /\ ores' = r
        /\ handles' = IF r.kind = "handle" THEN Append(handles, r) ELSE handles
  /\ opc' = "done"
  /\ UNCHANGED <<envVars, mainVars, logVars, verVars, groupVars, mode, f>>

InitOpener ==
  /\ MainIdle /\ GroupIdle
  /\ f \in {Stdout, Stdin} \cup Paths
  /\ mode = <<>> /\ opc = "factory" /\ handles = <<>>
  /\ ores = [kind |-> "none", stream |-> <<>>, codec |-> "", path |-> <<>>,
             mode |-> <<>>]

NextOpener == Opener \/ OpenFile

SpecOpener == InitOpener /\ [][NextOpener]_vars

\* the modes that open for reading
ReadModes == { <<"r">>, <<"r", "t">>, <<"r", "b">>, <<"r", "+">> }
HasSuffix(p, suffix) == \E k \in 0..Len(p) : p = SubSeq(p, 1, k) \o suffix

\* C6: a standard stream is returned as it is; '-' gives standard input
\* for a read mode and standard output otherwise; any other path gets the
\* bzip2 codec exactly when it ends in '.bz2', the gzip codec exactly when
\* it ends in '.gz', and no compression otherwise; no handle is opened for
\* a stream or for '-'.
TargetResolution ==
  opc = "done" =>
    /\ f \in {Stdout, Stdin} => (ores = Stream(f) /\ handles = <<>>)
    /\ f = <<"-">> =>
         /\ ores = Stream(IF mode \in ReadModes THEN Stdin ELSE Stdout)
         /\ handles = <<>>
    /\ f \notin {Stdout, Stdin, <<"-">>} =>
         /\ ores.kind = "handle" /\ ores.path = f /\ ores.mode = mode
         /\ ores.codec = "bz2" <=> HasSuffix(f, <<".", "b", "z", "2">>)
         /\ ores.codec = "gzip" <=> HasSuffix(f, <<".", "g", "z">>)
         /\ ores.codec = "none" <=>
              (~HasSuffix(f, <<".", "b", "z", "2">>) /\ ~HasSuffix(f, <<".", "g", "z">>))
         /\ handles = <<ores>>

TargetResolutionWitness ==
  /\ opc = "done" /\ f = <<"x", ".", "g", "z">> /\ mode = <<"r", "t">>
  /\ ores.codec = "gzip" /\ Len(handles) = 1

====
